---- MODULE Spec2Model ----
(***************************************************************************)
(* The 3D product viewer: ProductViewer (state, normalizeModel,            *)
(* handleModelLoad, the control handlers), AnimatedModel (the load effect  *)
(* with its center-and-fit step, the animation effect) and                 *)
(* AnimationControls (selection and cycling).                              *)
(*                                                                         *)
(* Numbers are exact rationals <<n, d>> with d > 0 in lowest terms.        *)
(* Vectors are triples of rationals.  Transforms are a uniform positive    *)
(* scale followed by a translation, the only transforms the viewer puts    *)
(* on the scene and on the group around it.                                *)
(***************************************************************************)
EXTENDS Integers, Sequences, FiniteSets, TLC

(***************************************************************************)
(* Bounds of the model.                                                    *)
(***************************************************************************)
\* Runs of AnimatedModel's load effect in one behaviour.
MaxLoads == 3
\* Renders of AnimatedModel with a new modelUrl in one behaviour.
MaxRenders == 3

(***************************************************************************)
(* Program constants.                                                      *)
(***************************************************************************)
\* ProductViewer's targetSize prop (default).
TargetSize == 3
\* AnimatedModel's targetSize 3.5, as the fraction FitTargetNum / FitTargetDen.
FitTargetNum == 7
FitTargetDen == 2
\* The scale prop ProductViewer passes to AnimatedModel.
ScaleProp == 1
\* analyzeModelComplexity's thresholds
HighTriangles == 50000
HighMeshes == 50
MediumTriangles == 10000
MediumMeshes == 20

None == "none"

(***************************************************************************)
(* Rational arithmetic.                                                    *)
(***************************************************************************)
Abs(n) == IF n < 0 THEN -n ELSE n

RECURSIVE GCD(_, _)
GCD(a, b) == IF b = 0 THEN a ELSE GCD(b, a % b)

\* The rational n / d (d # 0) in lowest terms with a positive denominator.
Q(n, d) ==
    LET g == GCD(Abs(n), Abs(d))
        s == IF d < 0 THEN -1 ELSE 1
    IN  <<(s * n) \div g, (s * d) \div g>>

QInt(n) == <<n, 1>>
QZero == <<0, 1>>
QOne == <<1, 1>>
\* Sums and products cancel common factors before they multiply.
QAdd(a, b) ==
    LET g == GCD(a[2], b[2])
    IN  Q(a[1] * (b[2] \div g) + b[1] * (a[2] \div g), (a[2] \div g) * b[2])
QMul(a, b) ==
    LET g == GCD(Abs(a[1]), b[2])
        h == GCD(Abs(b[1]), a[2])
    IN  <<(a[1] \div g) * (b[1] \div h), (a[2] \div h) * (b[2] \div g)>>
QDiv(a, b) == QMul(a, IF b[1] < 0 THEN <<-b[2], -b[1]>> ELSE <<b[2], b[1]>>)
QNeg(a) == <<-a[1], a[2]>>
QSub(a, b) == QAdd(a, QNeg(b))
QLt(a, b) ==
    LET g == GCD(a[2], b[2])
    IN  a[1] * (b[2] \div g) < b[1] * (a[2] \div g)
QMax(a, b) == IF QLt(a, b) THEN b ELSE a
QPos(a) == a[1] > 0

\* Vectors (THREE.Vector3).
VZero == <<QZero, QZero, QZero>>
VAdd(u, v) == <<QAdd(u[1], v[1]), QAdd(u[2], v[2]), QAdd(u[3], v[3])>>
VSub(u, v) == <<QSub(u[1], v[1]), QSub(u[2], v[2]), QSub(u[3], v[3])>>
VScale(u, k) == <<QMul(u[1], k), QMul(u[2], k), QMul(u[3], k)>>
VInt(x, y, z) == <<QInt(x), QInt(y), QInt(z)>>

(***************************************************************************)
(* Loaded assets.  An asset is what the loader returns for a URL: the graph  *)
(* of gltf.scene, the box of its geometry in the scene's own                 *)
(* frame (empty when no node carries geometry), and the names of            *)
(* gltf.animations in loader order ("" is a clip without a name).           *)
(***************************************************************************)
\* A node of a scene graph: its three.js type, the count of its geometry's
\* index buffer and of its position attribute (-1 when the geometry has
\* none, or the node has no geometry), and its children.
Node(type, index, position, children) ==
    [type |-> type, index |-> index, position |-> position, children |-> children]
Group(children) == Node("Group", -1, -1, children)
Mesh(index, position) == Node("Mesh", index, position, <<>>)

\* child.isMesh, which three.js sets on Mesh and on the classes derived from
\* it.
IsMesh(node) == node.type \in {"Mesh", "SkinnedMesh"}

\* k copies of a node.
Copies(k, node) == [i \in 1..k |-> node]

\* Assets with geometry and without clips, and assets with clips whose nodes
\* carry no geometry: the fit reads only the geometry, the selection of a
\* clip only the clips.
FitUrls == {"box.glb", "point.glb", "bare.glb"}
AnimUrls == {"rig.glb", "anon.glb", "duo.glb", "still.glb"}
\* Assets for the complexity analysis: counts at and next to the thresholds,
\* the same meshes flat and nested, and a skinned mesh.
AnalyzeUrls == {"t10000.glb", "t10001.glb", "t50000.glb", "t50001.glb",
                "t60000m10.glb", "t5000m5.glb", "m20.glb", "m21.glb",
                "m50.glb", "m51.glb", "flat.glb", "nested.glb", "skinned.glb"}
\* A good asset, and assets the validation rejects: a scene without
\* children and a gltf without a scene.
ErrorUrls == {"box.glb", "void.glb", "sceneless.glb"}
Urls == FitUrls \cup AnimUrls \cup AnalyzeUrls \cup ErrorUrls

\* The scene of a gltf that has none.
NoScene == Node("undefined", -1, -1, <<>>)

SceneGraph(u) ==
    CASE u = "t10000.glb" -> Group(<<Mesh(30002, 20000)>>)
      [] u = "t10001.glb" -> Group(<<Mesh(30003, 20000)>>)
      [] u = "t50000.glb" -> Group(<<Mesh(150000, 90000)>>)
      [] u = "t50001.glb" -> Group(<<Mesh(150003, 90000)>>)
      [] u = "t60000m10.glb" -> Group(Copies(10, Mesh(18000, 9000)))
      [] u = "t5000m5.glb" -> Group(Copies(5, Mesh(3000, 2000)))
      [] u = "m20.glb" -> Group(Copies(20, Mesh(3, 3)))
      [] u = "m21.glb" -> Group(<<Group(Copies(21, Mesh(3, 3)))>>)
      [] u = "m50.glb" -> Group(Copies(50, Mesh(3, 3)))
      [] u = "m51.glb" -> Group(Copies(51, Mesh(3, 3)))
      [] u = "flat.glb" -> Group(<<Mesh(4, 4), Mesh(5, 5), Mesh(-1, 7)>>)
      [] u = "nested.glb" ->
           Group(<<Node("Mesh", 4, 4, <<Node("Mesh", 5, 5, <<Mesh(-1, 7)>>)>>)>>)
      [] OTHER ->
           \* "skinned.glb": a skinned mesh over its bone, and a plain mesh
           Group(<<Node("SkinnedMesh", 6, 4, <<>>), Node("Bone", -1, -1, <<>>),
                   Mesh(3, 3)>>)

Geometry(lo, hi) == [empty |-> FALSE, min |-> lo, max |-> hi]
NoGeometry == [empty |-> TRUE, min |-> VZero, max |-> VZero]

Asset(u) ==
    CASE u \in AnalyzeUrls ->
           \* a centred cube of edge 3.5, which the fit step leaves in place
           [graph |-> SceneGraph(u),
            geom |-> Geometry(<<Q(-7, 4), Q(-7, 4), Q(-7, 4)>>,
                              <<Q(7, 4), Q(7, 4), Q(7, 4)>>),
            clips |-> <<>>]
      [] u = "box.glb" ->
           \* an off-centre box, largest extent 2
           [graph |-> Group(<<Mesh(36, 24)>>),
            geom |-> Geometry(VInt(1, 0, -1), VInt(3, 1, 1)),
            clips |-> <<>>]
      [] u = "point.glb" ->
           \* a single point away from the origin
           [graph |-> Group(<<Mesh(-1, 3)>>),
            geom |-> Geometry(VInt(1, 0, 2), VInt(1, 0, 2)),
            clips |-> <<>>]
      [] u = "void.glb" ->
           \* a scene without children
           [graph |-> Group(<<>>), geom |-> NoGeometry, clips |-> <<>>]
      [] u = "sceneless.glb" ->
           [graph |-> NoScene, geom |-> NoGeometry, clips |-> <<>>]
      [] u = "bare.glb" ->
           \* nodes without geometry
           [graph |-> Group(<<Group(<<>>)>>), geom |-> NoGeometry, clips |-> <<>>]
      [] u = "rig.glb" ->
           [graph |-> Group(<<Group(<<>>)>>), geom |-> NoGeometry,
            clips |-> <<"run", "walk", "idle">>]
      [] u = "anon.glb" ->
           \* the first clip has no name
           [graph |-> Group(<<Group(<<>>)>>), geom |-> NoGeometry, clips |-> <<"", "idle", "run">>]
      [] u = "duo.glb" ->
           \* no clip with one of the common names
           [graph |-> Group(<<Group(<<>>)>>), geom |-> NoGeometry, clips |-> <<"jump", "run">>]
      [] OTHER ->
           \* "still.glb": no clips
           [graph |-> Group(<<Group(<<>>)>>), geom |-> NoGeometry, clips |-> <<>>]

(***************************************************************************)
(* Transforms and THREE.Box3.                                              *)
(***************************************************************************)
Identity == [scale |-> QOne, pos |-> VZero]

\* The world transform of an object with transform local under a parent
\* whose world transform is parent: x -> parent.scale * (local.scale * x +
\* local.pos) + parent.pos.
Compose(parent, local) ==
    [scale |-> QMul(parent.scale, local.scale),
     pos   |-> VAdd(VScale(local.pos, parent.scale), parent.pos)]

\* new THREE.Box3().setFromObject(scene): the world-axis-aligned box of the
\* geometry under the scene's world transform; empty without geometry.
Box3SetFromObject(geom, world) ==
    IF geom.empty THEN NoGeometry
    ELSE Geometry(VAdd(VScale(geom.min, world.scale), world.pos),
                  VAdd(VScale(geom.max, world.scale), world.pos))

\* box.getCenter(): (0,0,0) for an empty box.
GetCenter(box) ==
    IF box.empty THEN VZero ELSE VScale(VAdd(box.min, box.max), Q(1, 2))

\* box.getSize(): (0,0,0) for an empty box.
GetSize(box) == IF box.empty THEN VZero ELSE VSub(box.max, box.min)

\* Math.max(size.x, size.y, size.z)
MaxDim(size) == QMax(size[1], QMax(size[2], size[3]))

(***************************************************************************)
(* AnimatedModel: the center-and-fit step of the load effect.              *)
(***************************************************************************)
\* The scene's transform after the step; sceneT is its transform before,
\* groupW the world transform of the group the scene hangs in.
FitScale(maxDim, scale) ==
    QMul(QDiv(Q(FitTargetNum, FitTargetDen), maxDim), scale)

CenterAndFit(geom, sceneT, groupW, scale) ==
    LET box    == Box3SetFromObject(geom, Compose(groupW, sceneT))
        center == GetCenter(box)
        size   == GetSize(box)
        maxDim == MaxDim(size)
    IN  [pos   |-> VScale(center, QInt(-1)),
         scale |-> IF QPos(maxDim) THEN FitScale(maxDim, scale) ELSE sceneT.scale]

(***************************************************************************)
(* ProductViewer.normalizeModel: the normalization data it returns, which  *)
(* it also stores (normalizedScale, modelPosition, modelScale).            *)
(***************************************************************************)
\* Faulty variant: the fallback for a zero largest extent is the target size.
NormalScaleNoUnit(maxDimension) ==
    IF QPos(maxDimension) THEN QDiv(QInt(TargetSize), maxDimension) ELSE QInt(TargetSize)

NormalScale(maxDimension) ==
    IF QPos(maxDimension) THEN QDiv(QInt(TargetSize), maxDimension) ELSE QOne

CenteredPosition(center, scale) == VScale(VScale(center, QInt(-1)), scale)

normalizeModel(geom, sceneT, groupW) ==
    LET box          == Box3SetFromObject(geom, Compose(groupW, sceneT))
        center       == GetCenter(box)
        size         == GetSize(box)
        maxDimension == MaxDim(size)
        scale        == NormalScale(maxDimension)
    IN  [originalSize     |-> size,
         center           |-> center,
         normalizedScale  |-> scale,
         centeredPosition |-> CenteredPosition(center, scale)]

(***************************************************************************)
(* Animation selection.                                                    *)
(***************************************************************************)
InSeq(x, seq) == \E i \in 1..Len(seq) : seq[i] = x

\* gltf.animations.map(clip => clip.name).filter(name => name)
IsNamed(name) == name # ""

\* Faulty variant: unnamed clips are kept.
AnimNamesUnfiltered(clips) == clips

AnimNames(clips) == SelectSeq(clips, IsNamed)

\* handleModelLoad's choice: the pair <<currentAnimation, playAnimations>> it
\* leaves, given the pair before.  It writes the pair only on auto-play.
\* Faulty variant: the declared default counts only as the first clip.
UseDeclaredDefaultIfFirst(product, animNames) ==
    /\ product.defaultAnimation # ""
    /\ Len(animNames) > 0
    /\ animNames[1] = product.defaultAnimation

UseDeclaredDefault(product, animNames) ==
    /\ product.defaultAnimation # ""
    /\ InSeq(product.defaultAnimation, animNames)

SelectOnLoad(clips, product, current, playing) ==
    LET animNames == AnimNames(clips)
    IN  IF Len(clips) > 0 /\ product.autoPlay
        THEN IF UseDeclaredDefault(product, animNames)
             THEN <<product.defaultAnimation, TRUE>>
             ELSE IF Len(animNames) > 0
                  THEN <<animNames[1], TRUE>>
                  ELSE <<current, playing>>
        ELSE <<current, playing>>

\* handleModelLoad's setAvailableAnimations.
AvailableOnLoad(clips) == IF Len(clips) > 0 THEN AnimNames(clips) ELSE <<>>

\* AnimatedModel's animation effect: the clip it leaves playing for the clip
\* names of the loaded asset, or None.  actions[name] exists for the names
\* of the asset.
HasAction(names, name) == name # None /\ name # "" /\ InSeq(name, names)

CommonNames(names) == <<"idle", "animation", "action", "default", names[1]>>

FirstCommon(names) ==
    LET common == CommonNames(names)
        hits   == {i \in 1..Len(common) : HasAction(names, common[i])}
    IN  IF hits = {} THEN None
        ELSE common[CHOOSE i \in hits : \A j \in hits : i <= j]

\* Faulty variant: no fallback when the requested clip is missing.
AnimationToPlayRequestedOnly(names, currentAnimation) ==
    IF HasAction(names, currentAnimation) THEN currentAnimation ELSE None

AnimationToPlay(names, currentAnimation) ==
    IF HasAction(names, currentAnimation)
    THEN currentAnimation
    ELSE FirstCommon(names)

AnimationEffect(names, currentAnimation, playAnimations) ==
    IF Len(names) = 0 THEN None
    ELSE IF playAnimations THEN AnimationToPlay(names, currentAnimation)
    ELSE None

(***************************************************************************)
(* AnimationControls: cycling.                                             *)
(***************************************************************************)
\* Faulty variant: an absent element counts as index 0.
IndexOfAbsentZero(seq, x) ==
    IF InSeq(x, seq)
    THEN (CHOOSE i \in 1..Len(seq) : seq[i] = x /\ \A j \in 1..(i - 1) : seq[j] # x) - 1
    ELSE 0

\* animations.indexOf(x), 0-based, -1 when absent.
IndexOf(seq, x) ==
    IF InSeq(x, seq)
    THEN (CHOOSE i \in 1..Len(seq) : seq[i] = x /\ \A j \in 1..(i - 1) : seq[j] # x) - 1
    ELSE -1

\* Faulty variant: stays on the last index instead of wrapping.
NextIndexClamped(currentIndex, n) ==
    IF currentIndex >= n - 1 THEN n - 1 ELSE currentIndex + 1

NextIndex(currentIndex, n) == IF currentIndex >= n - 1 THEN 0 ELSE currentIndex + 1
PrevIndex(currentIndex, n) == IF currentIndex <= 0 THEN n - 1 ELSE currentIndex - 1

NextAnimation(animations, selected) ==
    animations[NextIndex(IndexOf(animations, selected), Len(animations)) + 1]
PrevAnimation(animations, selected) ==
    animations[PrevIndex(IndexOf(animations, selected), Len(animations)) + 1]

\* What handleNext / handlePrevious pass to handleAnimationSelect: <<>> on
\* the early return for an empty list, else <<the clip>>.
NextRequest(animations, selected) ==
    IF Len(animations) = 0 THEN <<>> ELSE <<NextAnimation(animations, selected)>>
PrevRequest(animations, selected) ==
    IF Len(animations) = 0 THEN <<>> ELSE <<PrevAnimation(animations, selected)>>

(***************************************************************************)
(* modelValidation: validateLoadedModel and analyzeModelComplexity.        *)
(***************************************************************************)
\* The type of the validation error, None for a valid model.
ValidationError(asset) ==
    IF asset.graph = NoScene THEN "missing_scene"
    ELSE IF Len(asset.graph.children) = 0 THEN "empty_scene"
    ELSE None

\* Faulty variant: every loaded model is valid.
validateLoadedModelAlways(asset) == TRUE

\* isValid
validateLoadedModel(asset) == ValidationError(asset) = None

\* countMeshes: the node itself when its type is 'Mesh', plus its children.
RECURSIVE countMeshes(_)
RECURSIVE countMeshesOf(_)
countMeshesOf(children) ==
    IF children = <<>> THEN 0
    ELSE countMeshes(Head(children)) + countMeshesOf(Tail(children))
countMeshes(object3D) ==
    (IF object3D.type = "Mesh" THEN 1 ELSE 0) + countMeshesOf(object3D.children)

\* countTriangles: count is a number of thirds of a triangle here.  The node
\* adds index.count / 3, or else position.count / 3, then what each child
\* returns, and returns Math.floor(count).
OwnThirds(object3D) ==
    IF object3D.type = "Mesh"
    THEN IF object3D.index >= 0 THEN object3D.index
         ELSE IF object3D.position >= 0 THEN object3D.position
         ELSE 0
    ELSE 0

RECURSIVE countTriangles(_)
RECURSIVE countTrianglesOf(_)
countTrianglesOf(children) ==
    IF children = <<>> THEN 0
    ELSE countTriangles(Head(children)) + countTrianglesOf(Tail(children))
countTriangles(object3D) ==
    (OwnThirds(object3D) + 3 * countTrianglesOf(object3D.children)) \div 3

\* Faulty variant: the thresholds themselves count as the upper tier.
ComplexityInclusive(triangleCount, meshCount) ==
    IF triangleCount >= HighTriangles \/ meshCount >= HighMeshes THEN "high"
    ELSE IF triangleCount >= MediumTriangles \/ meshCount >= MediumMeshes THEN "medium"
    ELSE "low"

Complexity(triangleCount, meshCount) ==
    IF triangleCount > HighTriangles \/ meshCount > HighMeshes THEN "high"
    ELSE IF triangleCount > MediumTriangles \/ meshCount > MediumMeshes THEN "medium"
    ELSE "low"

analyzeModelComplexity(asset) ==
    LET meshCount      == countMeshes(asset.graph)
        triangleCount  == countTriangles(asset.graph)
        animationCount == Len(asset.clips)
    IN  [complexity     |-> Complexity(triangleCount, meshCount),
         meshCount      |-> meshCount,
         triangleCount  |-> triangleCount,
         animationCount |-> animationCount,
         hasAnimations  |-> animationCount > 0]

(***************************************************************************)
(* State.                                                                  *)
(***************************************************************************)
VARIABLES
    product,             \* ProductViewer's product prop: url, autoPlay, defaultAnimation
    loadStatus,          \* the loader's cache per URL: "none", "pending", "loaded"
    scene,               \* per URL, position and scale of the cached gltf.scene
    shown,               \* the URL whose gltf AnimatedModel has committed, or None
    playing,             \* the clip whose action AnimatedModel has playing, or None
    isLoading, error,
    modelInfo,           \* <<>> for null, else <<the normalization data>>
    modelScale, modelPosition, normalizedScale,
    availableAnimations, currentAnimation, playAnimations,
    vcModelScale,        \* ViewerControls' modelScale (the slider)
    selectedAnimation,   \* AnimationControls' selectedAnimation
    last,                \* the handler that ran last, with its argument
    nLoads,              \* runs of the load effect so far
    settings,            \* ProductViewer's autoRotateEnabled, rotationSpeed,
                         \* environment and quality
    vcSettings,          \* ViewerControls' wireframeMode, autoRotate,
                         \* rotationSpeed, environment and quality
    stored,              \* localStorage 'viewer-preferences': <<>> or <<text>>
    detail,              \* ProductDetail: its state and its requests
    gallery,             \* ProductGallery: its search state and its timers
    loader               \* AnimatedModel on a modelUrl of any text: the loads started

vars == <<product, loadStatus, scene, shown, playing, isLoading, error, modelInfo,
          modelScale, modelPosition, normalizedScale, availableAnimations,
          currentAnimation, playAnimations, vcModelScale, selectedAnimation,
          last, nLoads, settings, vcSettings, stored, detail, gallery, loader>>

Defaults == {"", "idle"}
Products == [url : Urls, autoPlay : BOOLEAN, defaultAnimation : Defaults]
FitProducts == {p \in Products : p.url \in FitUrls /\ ~p.autoPlay /\ p.defaultAnimation = ""}
AnimProducts == {p \in Products : p.url \in AnimUrls}
AnalyzeProducts ==
    {p \in Products : p.url \in AnalyzeUrls /\ ~p.autoPlay /\ p.defaultAnimation = ""}

\* Values of the scale slider (0.1 to 3).
Multipliers == {Q(1, 2), QOne, QInt(2)}

\* ProductViewer's state as one record, and its useState initial values.
Viewer ==
    [isLoading |-> isLoading, error |-> error, modelInfo |-> modelInfo,
     modelScale |-> modelScale, modelPosition |-> modelPosition,
     normalizedScale |-> normalizedScale,
     availableAnimations |-> availableAnimations,
     currentAnimation |-> currentAnimation, playAnimations |-> playAnimations]

InitialViewer ==
    [isLoading |-> TRUE, error |-> None, modelInfo |-> <<>>,
     modelScale |-> QOne, modelPosition |-> VZero, normalizedScale |-> QOne,
     availableAnimations |-> <<>>,
     currentAnimation |-> None, playAnimations |-> FALSE]

\* The world transform of the group ProductViewer renders around
\* AnimatedModel, as the last frame left it.
GroupWorld(v) == [scale |-> v.modelScale, pos |-> v.modelPosition]

\* handleModelError
handleModelError(v, err) == [v EXCEPT !.isLoading = FALSE, !.error = err]

\* handleModelLoad, for the asset, its scene transform after the fit step
\* and the viewer state v the handler starts from.
handleModelLoad(asset, complexity, fitted, v, prod) ==
    LET data == normalizeModel(asset.geom, fitted, GroupWorld(v)) @@ complexity
        sel  == SelectOnLoad(asset.clips, prod, v.currentAnimation, v.playAnimations)
    IN  [isLoading |-> FALSE, error |-> None, modelInfo |-> <<data>>,
         modelScale |-> data.normalizedScale,
         modelPosition |-> data.centeredPosition,
         normalizedScale |-> data.normalizedScale,
         availableAnimations |-> AvailableOnLoad(asset.clips),
         currentAnimation |-> sel[1], playAnimations |-> sel[2]]

\* handleScaleChange
handleScaleChange(normalized, scale) == QMul(normalized, scale)

\* handleAnimationChange: the pair <<currentAnimation, playAnimations>>.
\* Faulty variant: the request does not start playback.
handleAnimationChangeNoPlay(animationName, play) == <<animationName, play>>

handleAnimationChange(animationName, play) ==
    <<animationName, IF animationName # None /\ animationName # "" THEN TRUE ELSE play>>

\* AnimationControls is rendered when there are animations; its
\* selectedAnimation starts as, and follows changes of, currentAnimation.
SyncSelected(wasAvailable, oldCurrent, selected, available, current) ==
    IF available = <<>> THEN None
    ELSE IF wasAvailable = <<>> \/ current # oldCurrent THEN current
    ELSE selected

\* Faulty variant: a product without a model is shown a stock model.
getModelUrlWithDefault(p) == IF p.url = None THEN "box.glb" ELSE p.url

\* getModelUrl, the viewer having no modelUrl prop: the URL of the product's
\* model3d, None for a product without one.
getModelUrl(p) == p.url

\* AnimatedModel is not rendering a gltf: there is no URL, or the loader
\* has no gltf for it.
Suspended == getModelUrl(product) = None \/ loadStatus[getModelUrl(product)] # "loaded"

\* The load of the viewer's URL was rejected: useLoader throws the error
\* while AnimatedModel renders.  ModelErrorBoundary is a function component
\* and there is no error boundary above the viewer, so the error is caught
\* by nothing and React removes the page's component tree.
Crashed == getModelUrl(product) # None /\ loadStatus[getModelUrl(product)] = "failed"

SetViewer(v) ==
    /\ isLoading' = v.isLoading
    /\ error' = v.error
    /\ modelInfo' = v.modelInfo
    /\ modelScale' = v.modelScale
    /\ modelPosition' = v.modelPosition
    /\ normalizedScale' = v.normalizedScale
    /\ availableAnimations' = v.availableAnimations
    /\ currentAnimation' = v.currentAnimation
    /\ playAnimations' = v.playAnimations

ViewerUnchanged ==
    UNCHANGED <<isLoading, error, modelInfo, modelScale, modelPosition,
                normalizedScale, availableAnimations, currentAnimation,
                playAnimations>>

\* The environments and qualities ViewerControls offers, and values of its
\* rotation speed slider (0.1 to 3).
Environments == {"studio", "sunset", "forest", "city", "warehouse"}
Qualities == {"low", "medium", "high"}
Speeds == {Q(1, 2), QOne, QInt(3)}

\* ProductDetail renders the viewer with autoRotate={false}.
AutoRotateProp == FALSE

\* ProductViewer's control state and its useState initial values.
InitialSettings ==
    [wireframeMode |-> FALSE,
     autoRotateEnabled |-> AutoRotateProp, rotationSpeed |-> Q(1, 100),
     environment |-> "studio", quality |-> "medium"]

\* ViewerControls' own state and its useState initial values.
InitialControls ==
    [wireframeMode |-> FALSE, autoRotate |-> TRUE, rotationSpeed |-> QOne,
     environment |-> "studio", quality |-> "medium"]

(***************************************************************************)
(* helpers.storage and ViewerControls' preference effects.                 *)
(***************************************************************************)
\* JSON text of the values the preferences hold.
BoolText(b) == IF b THEN "true" ELSE "false"
ParseBool(t) == t = "true"
Numerals ==
    {<<Q(1, 2), "0.5">>, <<QOne, "1">>, <<QInt(2), "2">>, <<QInt(3), "3">>}
NumberText(q) == (CHOOSE n \in Numerals : n[1] = q)[2]
ParseNumber(t) == (CHOOSE n \in Numerals : n[2] = t)[1]
StringText(str) == <<"\"", str, "\"">>
ParseString(t) == t[2]

\* JSON.stringify and JSON.parse of a preferences object.
JSONstringify(prefs) ==
    [wireframeMode |-> BoolText(prefs.wireframeMode),
     autoRotate    |-> BoolText(prefs.autoRotate),
     rotationSpeed |-> NumberText(prefs.rotationSpeed),
     modelScale    |-> NumberText(prefs.modelScale),
     environment   |-> StringText(prefs.environment),
     quality       |-> StringText(prefs.quality)]

JSONparse(text) ==
    [wireframeMode |-> ParseBool(text.wireframeMode),
     autoRotate    |-> ParseBool(text.autoRotate),
     rotationSpeed |-> ParseNumber(text.rotationSpeed),
     modelScale    |-> ParseNumber(text.modelScale),
     environment   |-> ParseString(text.environment),
     quality       |-> ParseString(text.quality)]

\* storage.set(key, value) and storage.get(key, defaultValue), as the item
\* of the key after the call and as the value returned.
storageSet(value) == <<JSONstringify(value)>>
storageGet(item, defaultValue) ==
    IF item = <<>> THEN defaultValue ELSE JSONparse(item[1])

\* The object {}, and whether an object has a property of a name.
EmptyObject == [name \in {} |-> None]
Has(object, name) == name \in DOMAIN object

\* The preferences ViewerControls saves: its state.
Preferences(vc, scale) ==
    [wireframeMode |-> vc.wireframeMode, autoRotate |-> vc.autoRotate,
     rotationSpeed |-> vc.rotationSpeed, modelScale |-> scale,
     environment |-> vc.environment, quality |-> vc.quality]

\* The state the load effect sets from the saved preferences:
\* savedPrefs.x || default, and autoRotate !== undefined ? autoRotate : true.
LoadPreferences(savedPrefs) ==
    LET Or(name, falsy, default) ==
            IF ~Has(savedPrefs, name) THEN default
            ELSE IF savedPrefs[name] = falsy THEN default
            ELSE savedPrefs[name]
    IN  [wireframeMode |-> Or("wireframeMode", FALSE, FALSE),
         autoRotate    |-> IF Has(savedPrefs, "autoRotate")
                           THEN savedPrefs.autoRotate ELSE TRUE,
         rotationSpeed |-> Or("rotationSpeed", QInt(0), QOne),
         modelScale    |-> Or("modelScale", QInt(0), QOne),
         environment   |-> Or("environment", "", "studio"),
         quality       |-> Or("quality", "", "medium")]

\* Faulty variant: the load effect reads the item after the save effect of
\* the first render has written the initial state.
PrefsReadAfterSave(item) == storageSet(Preferences(InitialControls, QOne))

\* The item the load effect reads when ViewerControls mounts: the effects
\* of the first render run in the order of their declaration, the load
\* effect before the save effect.
PrefsReadAtMount(item) == item

\* ViewerControls' state once its mount has completed: the load effect sets
\* it from the saved preferences.
MountedPreferences(item) ==
    LoadPreferences(storageGet(PrefsReadAtMount(item), EmptyObject))

\* The item once the mount has completed: the save effect of the first
\* render writes the initial state, the one of the render that follows
\* writes the state the load effect has set, when it differs.
MountedItem(item) ==
    LET first == storageSet(Preferences(InitialControls, QOne))
        prefs == MountedPreferences(item)
    IN  IF prefs = Preferences(InitialControls, QOne) THEN first
        ELSE storageSet(prefs)

ControlsOf(prefs) ==
    [wireframeMode |-> prefs.wireframeMode, autoRotate |-> prefs.autoRotate,
     rotationSpeed |-> prefs.rotationSpeed,
     environment |-> prefs.environment, quality |-> prefs.quality]

\* ProductDetail and ProductGallery are other pages than the viewer's.
OtherPagesUnchanged == UNCHANGED <<detail, gallery, loader>>

(***************************************************************************)
(* ProductDetail: the page state and its product requests.                 *)
(***************************************************************************)
ProductIds == {"a", "b"}
MaxRequests == 4

\* The page just mounted on the route of product "a": the effect has called
\* loadProduct(id), whose request is in flight.  A request is the pair of
\* its number and its id; newest is the outcome of the request made last
\* ("pending", "ok" or "failed").
InitialDetail ==
    [id |-> "a", product |-> None, loading |-> TRUE, error |-> None,
     requests |-> {<<1, "a">>}, made |-> 1, newest |-> "pending"]

\* loadProduct(productId) up to its await: setLoading(true), setError(null),
\* and the request of ProductService.getProductById.
loadProduct(d, productId) ==
    [d EXCEPT !.loading = TRUE, !.error = None,
              !.requests = @ \cup {<<d.made + 1, productId>>},
              !.made = @ + 1, !.newest = "pending"]

\* loadProduct after its await, for the response of a request:
\* setProduct(response.data) or setError(...), then setLoading(false).
Response(d, request, success) ==
    [d EXCEPT !.requests = @ \ {request},
              !.product = IF success THEN request[2] ELSE @,
              !.error = IF success THEN @ ELSE "failed",
              !.loading = FALSE,
              !.newest = IF request[1] # d.made THEN @
                         ELSE IF success THEN "ok" ELSE "failed"]
(***************************************************************************)
(* ProductGallery: the debounced search.  Time advances in ticks of 100    *)
(* ms.                                                                     *)
(***************************************************************************)
\* debounce(..., 300): the delay in ticks.
DebounceTicks == 3
MaxKeys == 3
Terms == {"s", "so", "sof"}
Categories == {"All", "Furniture"}

\* The gallery with its products loaded and nothing typed.  A timer is a
\* setTimeout pending: the value it will pass to setSearchTerm, the ticks
\* left, and whether its timeoutId is the one of the debounce instance of
\* the current render.  typed is the value of the input, keys the
\* keystrokes so far, sinceKey the ticks since the last one, calls the
\* invocations of setSearchTerm since the first keystroke of the sequence
\* typed last.
InitialGallery ==
    [searchTerm |-> "", selectedCategory |-> "All", timers |-> <<>>,
     typed |-> "", keys |-> 0, sinceKey |-> DebounceTicks, calls |-> 0]

\* A render of ProductGallery: const debouncedSearch = debounce(...) makes a
\* new debounced function with a timeoutId of its own; the timers of the
\* instances before it stay pending.
Rerendered(timers) == [i \in DOMAIN timers |-> [timers[i] EXCEPT !.current = FALSE]]

\* The debounced function called with a term: clearTimeout(timeoutId) and
\* timeoutId = setTimeout(..., delay).
IsOrphan(timer) == ~timer.current
debounce(timers, term) ==
    Append(SelectSeq(timers, IsOrphan),
           [value |-> term, left |-> DebounceTicks, current |-> TRUE])

\* The timers due after a tick, in the order they were set, and the others.
IsDue(timer) == timer.left = 1
IsLater(timer) == timer.left > 1
Elapsed(timers) == [i \in DOMAIN timers |-> [timers[i] EXCEPT !.left = @ - 1]]

\* ProductViewer's control handlers.
handleWireframeToggle(s, enabled) == [s EXCEPT !.wireframeMode = enabled]

handleRotationToggle(s, enabled) == [s EXCEPT !.autoRotateEnabled = enabled]

handleRotationSpeedChange(s, speed) == [s EXCEPT !.rotationSpeed = speed]

\* Faulty variant: a change of environment puts the quality back to medium.
handleEnvironmentChangeResetsQuality(s, env) ==
    [s EXCEPT !.environment = env, !.quality = "medium"]

handleEnvironmentChange(s, env) == [s EXCEPT !.environment = env]

handleQualityChange(s, newQuality) == [s EXCEPT !.quality = newQuality]

\* handleResetModel, on the control state; it also sets modelScale to
\* normalizedScale.
handleResetModel(s) ==
    [wireframeMode |-> FALSE, autoRotateEnabled |-> AutoRotateProp,
     rotationSpeed |-> Q(1, 100), environment |-> "studio", quality |-> "medium"]

(***************************************************************************)
(* Model URLs of any text.  A JavaScript value is a type with its text; a  *)
(* text is a sequence of pieces (a scheme with its host, a path, a file    *)
(* name, an extension, a blank), the units the string functions of the     *)
(* validation look for.                                                    *)
(***************************************************************************)
Null == [type |-> "null", text |-> <<>>]
String(text) == [type |-> "string", text |-> text]
Number(text) == [type |-> "number", text |-> text]

\* !value, for the values above.
Falsy(value) ==
    \/ value.type = "null"
    \/ value.type = "string" /\ value.text = <<>>
    \/ value.type = "number" /\ value.text = <<"0">>

RECURSIVE TrimStart(_)
TrimStart(text) ==
    IF text # <<>> /\ Head(text) = " " THEN TrimStart(Tail(text)) ELSE text

RECURSIVE TrimEnd(_)
TrimEnd(text) ==
    IF text # <<>> /\ text[Len(text)] = " "
    THEN TrimEnd(SubSeq(text, 1, Len(text) - 1))
    ELSE text

\* String.prototype.trim, includes and toLowerCase.
trim(text) == TrimEnd(TrimStart(text))

includes(text, piece) == \E i \in 1..Len(text) : text[i] = piece

LowerCase(piece) ==
    CASE piece = ".GLB" -> ".glb"
      [] piece = ".GLTF" -> ".gltf"
      [] OTHER -> piece

toLowerCase(text) == [i \in 1..Len(text) |-> LowerCase(text[i])]

\* The pieces a text can begin with for new URL(text) not to throw: a
\* scheme.
AssetBaseUrl == "http://localhost:5000"
Schemes == {AssetBaseUrl, "javascript:", "data:text/html"}

ParsesAsUrl(text) == text # <<>> /\ Head(text) \in Schemes

\* ProductService.getModelUrl, for the model3d path of a product.
ProductServiceGetModelUrl(modelPath) ==
    IF Falsy(modelPath) THEN Null
    ELSE LET noSlash == IF Head(modelPath.text) = "/"
                        THEN Tail(modelPath.text) ELSE modelPath.text
             filename == IF noSlash # <<>> /\ Head(noSlash) = "models/"
                         THEN Tail(noSlash) ELSE noSlash
         IN  String(<<AssetBaseUrl, "/models/">> \o filename)

sanitizeModelUrl(url) ==
    IF Falsy(url) THEN Null
    ELSE LET sanitized == trim(url.text)
         IN  IF includes(sanitized, "javascript:")
                    \/ includes(sanitized, "data:text/html")
             THEN Null
             ELSE String(sanitized)

getModelType(url) ==
    IF Falsy(url) THEN "unknown"
    ELSE IF includes(toLowerCase(url.text), ".glb") THEN "glb"
    ELSE IF includes(toLowerCase(url.text), ".gltf") THEN "gltf"
    ELSE "unknown"

supportedExtensions == {".glb", ".gltf"}

validateModelUrl(url) ==
    IF Falsy(url)
    THEN [isValid |-> FALSE, error |-> "Model URL is required",
          type |-> "missing_url"]
    ELSE IF url.type # "string"
    THEN [isValid |-> FALSE, error |-> "Model URL must be a string",
          type |-> "invalid_type"]
    ELSE IF ~\E ext \in supportedExtensions : includes(toLowerCase(url.text), ext)
    THEN [isValid |-> FALSE, error |-> "Model must be one of these formats",
          type |-> "unsupported_format"]
    ELSE IF ~ParsesAsUrl(url.text)
    THEN [isValid |-> FALSE, error |-> "Invalid URL format", type |-> "invalid_url"]
    ELSE [isValid |-> TRUE, error |-> None, type |-> getModelType(url)]

\* The modelUrl props AnimatedModel is rendered with: the URLs of model3d
\* paths with and without a supported extension, and modelUrl props of the
\* viewer that are absent, empty, not a string, padded with blanks, relative
\* or a script.
ModelPaths ==
    {String(<<"/", "models/", "chair", ".glb">>), String(<<"chair", ".GLB">>),
     String(<<"models/", "chair", ".obj">>)}

ModelUrls ==
    {ProductServiceGetModelUrl(path) : path \in ModelPaths}
        \cup {Null, String(<<>>), Number(<<"42">>),
              String(<<" ", AssetBaseUrl, "/models/", "chair", ".glb", " ">>),
              String(<<"/models/", "chair", ".glb">>),
              String(<<"javascript:", "chair", ".glb">>)}

SanitizedUrls == {sanitizeModelUrl(url) : url \in ModelUrls}

\* AnimatedModel before it is rendered: no modelUrl, an empty loader cache,
\* no load started, no callback called.
InitialLoader ==
    [mounted |-> FALSE, modelUrl |-> Null, renders |-> 0,
     status |-> [url \in SanitizedUrls |-> "none"],
     started |-> {}, modelError |-> None, onLoad |-> {}, onError |-> {}]

\* A viewer just mounted with one of the products, its asset being loaded;
\* the loader's cache holds the assets of the URLs in cached, left there by
\* viewers before this one.
UrlsOf(products) == {p.url : p \in products} \ {None}

InitWith(products, cached) ==
    /\ product \in products
    /\ loadStatus = [u \in UrlsOf(products) |-> IF u = getModelUrl(product) THEN "pending"
                                    ELSE IF u \in cached THEN "loaded" ELSE "none"]
    /\ scene = [u \in UrlsOf(products) |-> Identity]
    /\ shown = None
    /\ playing = None
    /\ isLoading = InitialViewer.isLoading
    /\ error = InitialViewer.error
    /\ modelInfo = InitialViewer.modelInfo
    /\ modelScale = InitialViewer.modelScale
    /\ modelPosition = InitialViewer.modelPosition
    /\ normalizedScale = InitialViewer.normalizedScale
    /\ availableAnimations = InitialViewer.availableAnimations
    /\ currentAnimation = InitialViewer.currentAnimation
    /\ playAnimations = InitialViewer.playAnimations
    /\ vcModelScale = MountedPreferences(<<>>).modelScale
    /\ selectedAnimation = None
    /\ last = [op |-> "mount", arg |-> None]
    /\ nLoads = 0
    /\ settings = InitialSettings
    /\ vcSettings = ControlsOf(MountedPreferences(<<>>))
    /\ stored = MountedItem(<<>>)
    /\ detail = InitialDetail
    /\ gallery = InitialGallery
    /\ loader = InitialLoader

(***************************************************************************)
(* AnimatedModel's load effect for the gltf of URL u, run from viewer      *)
(* state v under product prod: validation, the center-and-fit step, and    *)
(* onLoad (handleModelLoad) or onError (handleModelError); then the        *)
(* re-render it causes: the animation effect and AnimationControls.        *)
(***************************************************************************)
LoadResult(u, v, prod) ==
    LET asset  == Asset(u)
        valid  == validateLoadedModel(asset)
        fitted == CenterAndFit(asset.geom, scene[u], GroupWorld(v), QInt(ScaleProp))
        complexityInfo == analyzeModelComplexity(asset)
    IN  [valid  |-> valid,
         scene  |-> IF valid THEN fitted ELSE scene[u],
         viewer |-> IF valid THEN handleModelLoad(asset, complexityInfo, fitted, v, prod)
                    ELSE handleModelError(v, ValidationError(asset))]

\* Faulty variant: AnimatedModel's scale prop is the viewer's modelScale.
LoadEffectDepsOnModelScale(u, prod) == <<u, prod, TargetSize, modelScale>>

\* The dependencies of the load effect, [gltf, onLoad, onError, enableBounds,
\* scale, sanitizedUrl], by what each one changes with: gltf and sanitizedUrl
\* with the URL, onLoad (handleModelLoad) with product and targetSize; the
\* scale prop is 1, onError and enableBounds never change.
LoadEffectDeps(u, prod) == <<u, prod, TargetSize, QInt(ScaleProp)>>

LoadEffect(u, v, prod) ==
    \E r \in {LoadResult(u, v, prod)} :
        /\ nLoads < MaxLoads
        /\ nLoads' = nLoads + 1
        /\ scene' = [scene EXCEPT ![u] = r.scene]
        /\ SetViewer(r.viewer)
        /\ shown' = u
        /\ playing' = AnimationEffect(Asset(u).clips, r.viewer.currentAnimation,
                                      r.viewer.playAnimations)
        /\ selectedAnimation' =
               SyncSelected(v.availableAnimations, v.currentAnimation,
                            selectedAnimation, r.viewer.availableAnimations,
                            r.viewer.currentAnimation)
        /\ last' = [op |-> IF r.valid THEN "load" ELSE "loadError", arg |-> u,
                    deps |-> LoadEffectDeps(u, prod)]

\* The loader's cache after a viewer without a gltf for URL u has rendered:
\* the viewer without a URL renders no AnimatedModel; useLoader starts the
\* load of a URL new to the cache and keeps a pending or a rejected one.
StartLoad(u) ==
    IF u = None \/ loadStatus[u] # "none" THEN loadStatus
    ELSE [loadStatus EXCEPT ![u] = "pending"]

\* ViewerControls mounts: its preference effects.
MountControls ==
    /\ vcSettings' = ControlsOf(MountedPreferences(stored))
    /\ vcModelScale' = MountedPreferences(stored).modelScale
    /\ stored' = MountedItem(stored)
    /\ OtherPagesUnchanged

\* A new ProductViewer is mounted with product p (a page is opened).  The
\* loader's cache outlives the viewer: a cached gltf is rendered at once.
Mount(p) ==
    /\ ~Crashed
    /\ product' = p
    /\ settings' = InitialSettings
    /\ MountControls
    /\ \/ /\ getModelUrl(p) # None
          /\ loadStatus[getModelUrl(p)] = "loaded"
          /\ UNCHANGED loadStatus
          /\ LoadEffect(getModelUrl(p), InitialViewer, p)
       \/ /\ IF getModelUrl(p) = None THEN TRUE ELSE loadStatus[getModelUrl(p)] # "loaded"
          /\ loadStatus' = StartLoad(getModelUrl(p))
          /\ SetViewer(InitialViewer)
          /\ shown' = None
          /\ playing' = None
          /\ selectedAnimation' = None
          /\ last' = [op |-> "mount", arg |-> None]
          /\ UNCHANGED <<scene, nLoads>>

\* The product prop of the mounted viewer changes (ProductDetail sets a
\* product that arrived).  handleModelLoad is a new callback, so the load
\* effect runs again unless AnimatedModel is suspended on a pending load.
SetProduct(p) ==
    /\ ~Crashed
    /\ product' = p
    /\ UNCHANGED <<vcModelScale, settings, vcSettings, stored, detail, gallery, loader>>
    /\ \/ /\ getModelUrl(p) # None
          /\ loadStatus[getModelUrl(p)] = "loaded"
          /\ UNCHANGED loadStatus
          /\ LoadEffect(getModelUrl(p), Viewer, p)
       \/ /\ IF getModelUrl(p) = None THEN TRUE ELSE loadStatus[getModelUrl(p)] # "loaded"
          /\ loadStatus' = StartLoad(getModelUrl(p))
          /\ ViewerUnchanged
          /\ last' = [op |-> "product", arg |-> None]
          /\ shown' = IF getModelUrl(p) = None THEN None ELSE shown
          /\ playing' = IF getModelUrl(p) = None THEN None ELSE playing
          /\ UNCHANGED <<scene, selectedAnimation, nLoads>>

\* The loader resolves the pending load of URL u.
LoadComplete(u) ==
    /\ loadStatus[u] = "pending"
    /\ loadStatus' = [loadStatus EXCEPT ![u] = "loaded"]
    /\ UNCHANGED <<product, vcModelScale, settings, vcSettings, stored, detail,
                   gallery, loader>>
    /\ \/ /\ u = getModelUrl(product)
          /\ LoadEffect(u, Viewer, product)
       \/ /\ u # getModelUrl(product)
          /\ ViewerUnchanged
          /\ last' = [op |-> "stale", arg |-> u]
          /\ UNCHANGED <<scene, shown, playing, selectedAnimation, nLoads>>

\* The loader rejects the pending load of URL u (the file is missing, the
\* network fails, the file does not parse).  The rejection stays in the
\* loader's cache.  No handler of the viewer runs: its state is as it was
\* when the page's component tree is removed.
LoadFail(u) ==
    /\ loadStatus[u] = "pending"
    /\ loadStatus' = [loadStatus EXCEPT ![u] = "failed"]
    /\ ViewerUnchanged
    /\ last' = [op |-> "loadFailed", arg |-> u]
    /\ UNCHANGED <<product, scene, shown, playing, selectedAnimation, nLoads,
                   vcModelScale, settings, vcSettings, stored, detail, gallery, loader>>

\* The button of the error overlay: setError(null), setIsLoading(true) and
\* window.location.reload().  The page starts again with an empty loader
\* cache; ViewerControls reads its saved preferences.
Retry ==
    /\ error # None
    /\ ~Suspended
    /\ loadStatus' = [u \in DOMAIN loadStatus |->
                          IF u = getModelUrl(product) THEN "pending" ELSE "none"]
    /\ scene' = [u \in DOMAIN scene |-> Identity]
    /\ SetViewer(InitialViewer)
    /\ settings' = InitialSettings
    /\ shown' = None
    /\ playing' = None
    /\ selectedAnimation' = None
    /\ last' = [op |-> "retry", arg |-> None]
    /\ MountControls
    /\ UNCHANGED <<product, nLoads>>

(***************************************************************************)
(* User actions.  The controls are disabled while isLoading; the animation *)
(* controls are rendered when availableAnimations is not empty.            *)
(***************************************************************************)
\* The clip AnimatedModel has playing after a re-render with the given
\* props: its animation effect does not run while it is suspended.
PlayingAfter(current, play) ==
    IF Suspended \/ shown = None THEN playing
    ELSE AnimationEffect(Asset(shown).clips, current, play)

\* ViewerControls.handleScaleChange -> ProductViewer.handleScaleChange
ScaleChange(m) ==
    /\ ~isLoading
    /\ vcModelScale' = m
    /\ stored' = storageSet(Preferences(vcSettings, m))
    /\ modelScale' = handleScaleChange(normalizedScale, m)
    /\ last' = [op |-> "scale", arg |-> m]
    /\ UNCHANGED <<product, loadStatus, scene, shown, playing, isLoading, error,
                   modelInfo, modelPosition, normalizedScale, availableAnimations,
                   currentAnimation, playAnimations, selectedAnimation, nLoads,
                   settings, vcSettings, detail, gallery, loader>>

\* AnimationControls.handleAnimationSelect(animationName)
\*   -> ProductViewer.handleAnimationChange
AnimationSelected(animationName, op) ==
    LET sel == handleAnimationChange(animationName, playAnimations)
    IN  /\ currentAnimation' = sel[1]
        /\ playAnimations' = sel[2]
        /\ selectedAnimation' = animationName
        /\ playing' = PlayingAfter(sel[1], sel[2])
        /\ last' = [op |-> op, arg |-> animationName, from |-> selectedAnimation]
        /\ UNCHANGED <<product, loadStatus, scene, shown, isLoading, error,
                       modelInfo, modelScale, modelPosition, normalizedScale,
                       availableAnimations, vcModelScale, nLoads,
                   settings, vcSettings, stored, detail, gallery, loader>>

ControlsEnabled == availableAnimations # <<>> /\ ~isLoading

\* A click on a clip of the animation list.
handleAnimationSelect(animationName) ==
    /\ ControlsEnabled
    /\ InSeq(animationName, availableAnimations)
    /\ AnimationSelected(animationName, "select")

\* The navigation buttons are rendered for more than one animation.
handleNext ==
    /\ ControlsEnabled
    /\ Len(availableAnimations) > 1
    /\ \E r \in {NextRequest(availableAnimations, selectedAnimation)} :
           r # <<>> /\ AnimationSelected(r[1], "next")

handlePrevious ==
    /\ ControlsEnabled
    /\ Len(availableAnimations) > 1
    /\ \E r \in {PrevRequest(availableAnimations, selectedAnimation)} :
           r # <<>> /\ AnimationSelected(r[1], "previous")

\* The play button, the stop button and the restart button are disabled
\* without a selection.
HasSelection == selectedAnimation # None /\ selectedAnimation # ""

\* handlePlayToggle -> handleAnimationToggle(!isPlaying)
handlePlayToggle ==
    /\ ControlsEnabled
    /\ HasSelection
    /\ playAnimations' = ~playAnimations
    /\ playing' = PlayingAfter(currentAnimation, ~playAnimations)
    /\ last' = [op |-> "toggle", arg |-> None]
    /\ UNCHANGED <<product, loadStatus, scene, shown, isLoading, error, modelInfo,
                   modelScale, modelPosition, normalizedScale, availableAnimations,
                   currentAnimation, vcModelScale, selectedAnimation, nLoads,
                   settings, vcSettings, stored, detail, gallery, loader>>

\* Stop: onAnimationToggle(false); setSelectedAnimation(null);
\* onAnimationChange(null)
StopAnimation ==
    /\ ControlsEnabled
    /\ HasSelection
    /\ LET sel == handleAnimationChange(None, FALSE)
       IN  /\ currentAnimation' = sel[1]
           /\ playAnimations' = sel[2]
           /\ playing' = PlayingAfter(sel[1], sel[2])
    /\ selectedAnimation' = None
    /\ last' = [op |-> "stop", arg |-> None]
    /\ UNCHANGED <<product, loadStatus, scene, shown, isLoading, error, modelInfo,
                   modelScale, modelPosition, normalizedScale, availableAnimations,
                   vcModelScale, nLoads,
                   settings, vcSettings, stored, detail, gallery, loader>>

\* Restart: onAnimationChange(selectedAnimation); onAnimationToggle(true)
RestartAnimation ==
    /\ ControlsEnabled
    /\ HasSelection
    /\ LET sel == handleAnimationChange(selectedAnimation, playAnimations)
       IN  /\ currentAnimation' = sel[1]
           /\ playAnimations' = TRUE
           /\ playing' = PlayingAfter(sel[1], TRUE)
    /\ last' = [op |-> "restart", arg |-> selectedAnimation]
    /\ UNCHANGED <<product, loadStatus, scene, shown, isLoading, error, modelInfo,
                   modelScale, modelPosition, normalizedScale, availableAnimations,
                   vcModelScale, selectedAnimation, nLoads,
                   settings, vcSettings, stored, detail, gallery, loader>>

\* ViewerControls' handlers of the rotation, environment and quality
\* controls: each sets its own state and calls ProductViewer's handler.
ControlChanged(op, arg, vc, s) ==
    /\ ~isLoading
    /\ vcSettings' = vc
    /\ stored' = storageSet(Preferences(vc, vcModelScale))
    /\ settings' = s
    /\ last' = [op |-> op, arg |-> arg]
    /\ ViewerUnchanged
    /\ UNCHANGED <<product, loadStatus, scene, shown, playing, vcModelScale,
                   selectedAnimation, nLoads, detail, gallery, loader>>

\* handleResetSettings: ViewerControls sets its state to the initial values,
\* calls each handler of ProductViewer with the initial value, then
\* onResetModel.
handleResetSettings ==
    LET s1 == handleWireframeToggle(settings, FALSE)
        s2 == handleRotationToggle(s1, TRUE)
        s3 == handleRotationSpeedChange(s2, Q(1, 100))
        s4 == handleEnvironmentChange(s3, "studio")
        s5 == handleQualityChange(s4, "medium")
    IN  /\ ~isLoading
        /\ vcSettings' = InitialControls
        /\ vcModelScale' = QOne
        /\ stored' = storageSet(Preferences(InitialControls, QOne))
        /\ settings' = handleResetModel(s5)
        \* onScaleChange(1), then handleResetModel's setModelScale
        /\ modelScale' = normalizedScale
        /\ last' = [op |-> "reset", arg |-> None]
        /\ UNCHANGED <<product, loadStatus, scene, shown, playing, isLoading,
                       error, modelInfo, modelPosition, normalizedScale,
                       availableAnimations, currentAnimation, playAnimations,
                       selectedAnimation, nLoads, detail, gallery, loader>>

\* handleWireframeToggle: newMode = !wireframeMode
WireframeToggle ==
    ControlChanged("wireframe", ~vcSettings.wireframeMode,
                   [vcSettings EXCEPT !.wireframeMode = ~vcSettings.wireframeMode],
                   handleWireframeToggle(settings, ~vcSettings.wireframeMode))

\* handleRotationToggle: newAutoRotate = !autoRotate
RotationToggle ==
    ControlChanged("rotationToggle", ~vcSettings.autoRotate,
                   [vcSettings EXCEPT !.autoRotate = ~vcSettings.autoRotate],
                   handleRotationToggle(settings, ~vcSettings.autoRotate))

\* handleRotationSpeedChange: onRotationSpeedChange(speed * 0.01)
RotationSpeedChange(speed) ==
    ControlChanged("rotationSpeed", speed,
                   [vcSettings EXCEPT !.rotationSpeed = speed],
                   handleRotationSpeedChange(settings, QMul(speed, Q(1, 100))))

EnvironmentChange(env) ==
    ControlChanged("environment", env,
                   [vcSettings EXCEPT !.environment = env],
                   handleEnvironmentChange(settings, env))

QualityChange(q) ==
    ControlChanged("quality", q,
                   [vcSettings EXCEPT !.quality = q],
                   handleQualityChange(settings, q))

\* The viewer on assets with geometry: loads and the scale slider.
InitFit == InitWith(FitProducts, {})

NextFit ==
    \/ \E p \in FitProducts : Mount(p)
    \/ \E p \in FitProducts : SetProduct(p)
    \/ \E u \in FitUrls : LoadComplete(u)
    \/ \E m \in Multipliers : ScaleChange(m)

SpecFit == InitFit /\ [][NextFit]_vars

\* The viewer on one asset: its load and the viewer controls.
SettingsProducts == {p \in FitProducts : p.url = "box.glb"}

InitSettings == InitWith(SettingsProducts, {})

NextSettings ==
    \/ \E u \in UrlsOf(SettingsProducts) : LoadComplete(u)
    \/ \E m \in Multipliers : ScaleChange(m)
    \/ RotationToggle
    \/ \E speed \in Speeds : RotationSpeedChange(speed)
    \/ \E env \in Environments : EnvironmentChange(env)
    \/ \E q \in Qualities : QualityChange(q)

SpecSettings == InitSettings /\ [][NextSettings]_vars

\* The viewer on a product without a model, a good asset and assets that
\* fail: loads that are rejected, models the validation rejects, the retry.
NoModel == [url |-> None, autoPlay |-> FALSE, defaultAnimation |-> ""]
ErrorProducts ==
    {p \in Products : p.url \in ErrorUrls /\ ~p.autoPlay /\ p.defaultAnimation = ""}
        \cup {NoModel}

InitError == InitWith(ErrorProducts, {})

NextError ==
    \/ \E p \in ErrorProducts : Mount(p)
    \/ \E p \in ErrorProducts : SetProduct(p)
    \/ \E u \in ErrorUrls : LoadComplete(u)
    \/ \E u \in ErrorUrls : LoadFail(u)
    \/ Retry

SpecError == InitError /\ [][NextError]_vars

\* The viewer on one asset, mounted again and again: the controls whose
\* state is saved, and the reset.
PrefsProducts == SettingsProducts

InitPrefs == InitWith(PrefsProducts, {})

NextPrefs ==
    \/ \E p \in PrefsProducts : Mount(p)
    \/ \E u \in UrlsOf(PrefsProducts) : LoadComplete(u)
    \/ \E m \in Multipliers : ScaleChange(m)
    \/ WireframeToggle
    \/ RotationToggle
    \/ \E speed \in {QInt(3)} : RotationSpeedChange(speed)
    \/ \E env \in {"forest"} : EnvironmentChange(env)
    \/ \E q \in {"high"} : QualityChange(q)
    \/ handleResetSettings

SpecPrefs == InitPrefs /\ [][NextPrefs]_vars

\* The state of the viewer's page and of the gallery.
ViewerPage ==
    <<product, loadStatus, scene, shown, playing, isLoading, error, modelInfo,
      modelScale, modelPosition, normalizedScale, availableAnimations,
      currentAnimation, playAnimations, vcModelScale, selectedAnimation,
      nLoads, settings, vcSettings, stored>>

\* The route's product id changes while ProductDetail stays mounted: the
\* effect on [id] calls loadProduct(id).
IdChanged(newId) ==
    /\ detail.made < MaxRequests
    /\ newId # detail.id
    /\ detail' = loadProduct([detail EXCEPT !.id = newId], newId)
    /\ last' = [op |-> "id", arg |-> newId]
    /\ UNCHANGED <<ViewerPage, gallery, loader>>

\* The Try Again button of the error state, which is rendered when loading
\* is false and error is set: loadProduct(id).
RetryProduct ==
    /\ detail.made < MaxRequests
    /\ ~detail.loading
    /\ detail.error # None
    /\ detail' = loadProduct(detail, detail.id)
    /\ last' = [op |-> "retryProduct", arg |-> detail.id]
    /\ UNCHANGED <<ViewerPage, gallery, loader>>

\* A request in flight is answered, with the product or with a failure.
ProductResponse(request, success) ==
    /\ request \in detail.requests
    /\ detail' = Response(detail, request, success)
    /\ last' = [op |-> "response", arg |-> request]
    /\ UNCHANGED <<ViewerPage, gallery, loader>>

InitDetail == InitWith(PrefsProducts, {})

NextDetail ==
    \/ \E newId \in ProductIds : IdChanged(newId)
    \/ RetryProduct
    \/ \E n \in 1..MaxRequests, i \in ProductIds, success \in BOOLEAN :
           ProductResponse(<<n, i>>, success)

SpecDetail == InitDetail /\ [][NextDetail]_vars

\* handleSearchChange: a keystroke in the search input, less than 300 ms
\* after the one before it or the first of a new sequence.
handleSearchChange(term) ==
    /\ gallery.keys < MaxKeys
    /\ term # gallery.typed
    /\ gallery.sinceKey < DebounceTicks \/ gallery.timers = <<>>
    /\ gallery' = [gallery EXCEPT
                      !.timers = debounce(@, term),
                      !.typed = term,
                      !.keys = @ + 1,
                      !.sinceKey = 0,
                      !.calls = IF gallery.sinceKey < DebounceTicks THEN @ ELSE 0]
    /\ last' = [op |-> "key", arg |-> term]
    /\ UNCHANGED <<ViewerPage, detail, loader>>

\* handleCategoryChange: setSelectedCategory, and the render it causes.
handleCategoryChange(category) ==
    /\ category # gallery.selectedCategory
    /\ gallery' = [gallery EXCEPT !.selectedCategory = category,
                                  !.timers = Rerendered(@)]
    /\ last' = [op |-> "category", arg |-> category]
    /\ UNCHANGED <<ViewerPage, detail, loader>>

\* 100 ms pass: the timers due call setSearchTerm in the order they were
\* set; a change of searchTerm renders the gallery again.
Tick ==
    /\ gallery.timers # <<>>
    /\ LET due   == SelectSeq(gallery.timers, IsDue)
           later == Elapsed(SelectSeq(gallery.timers, IsLater))
           term  == IF due = <<>> THEN gallery.searchTerm
                    ELSE due[Len(due)].value
       IN  gallery' = [gallery EXCEPT
                          !.searchTerm = term,
                          !.calls = @ + Len(due),
                          !.sinceKey = IF @ < DebounceTicks THEN @ + 1 ELSE @,
                          !.timers = IF term # gallery.searchTerm
                                     THEN Rerendered(later) ELSE later]
    /\ last' = [op |-> "tick", arg |-> None]
    /\ UNCHANGED <<ViewerPage, detail, loader>>

InitGallery == InitWith(PrefsProducts, {})

NextGallery ==
    \/ \E term \in Terms : handleSearchChange(term)
    \/ \E category \in Categories : handleCategoryChange(category)
    \/ Tick

SpecGallery == InitGallery /\ [][NextGallery]_vars

(***************************************************************************)
(* AnimatedModel on a modelUrl of any text: sanitizeModelUrl, useLoader,   *)
(* and the URL validation at the head of the load effect.  The rest of the *)
(* effect is LoadEffect above; the gltf is that of the box.                *)
(***************************************************************************)
\* The load effect for sanitized URL url, its gltf loaded.
UrlEffect(l, url) ==
    LET urlValidation == validateModelUrl(url)
        gltf == Asset("box.glb")
    IN  IF ~urlValidation.isValid
        THEN [l EXCEPT !.modelError = urlValidation.error,
                       !.onError = @ \cup {<<url, urlValidation.error>>}]
        ELSE IF ~validateLoadedModel(gltf)
        THEN [l EXCEPT !.modelError = ValidationError(gltf),
                       !.onError = @ \cup {<<url, ValidationError(gltf)>>}]
        ELSE [l EXCEPT !.modelError = None, !.onLoad = @ \cup {url}]

\* AnimatedModel renders with modelUrl url (it mounts, or the prop changes).
\* useLoader is called with the sanitized URL: a URL new to the cache is
\* handed to the loader and the component suspends; the effect runs at once
\* on a cached gltf.
RenderModel(url) ==
    /\ ~loader.mounted \/ url # loader.modelUrl
    /\ loader.renders < MaxRenders
    /\ \E sanitizedUrl \in {sanitizeModelUrl(url)} :
         \E l \in {[loader EXCEPT !.mounted = TRUE, !.modelUrl = url,
                                   !.renders = @ + 1]} :
            loader' =
                IF loader.status[sanitizedUrl] = "none"
                THEN [l EXCEPT !.status[sanitizedUrl] = "pending",
                               !.started = @ \cup {<<url, sanitizedUrl>>}]
                ELSE IF loader.status[sanitizedUrl] = "loaded"
                THEN UrlEffect(l, sanitizedUrl)
                ELSE l
    /\ last' = [op |-> "render", arg |-> None]
    /\ UNCHANGED <<ViewerPage, detail, gallery>>

\* The loader resolves the load of url: AnimatedModel, if it is rendered
\* with this URL, commits and its effect runs.
ModelLoaded(url) ==
    /\ loader.status[url] = "pending"
    /\ \E l \in {[loader EXCEPT !.status[url] = "loaded"]} :
         loader' = IF sanitizeModelUrl(loader.modelUrl) = url
                   THEN UrlEffect(l, url)
                   ELSE l
    /\ last' = [op |-> "modelLoaded", arg |-> None]
    /\ UNCHANGED <<ViewerPage, detail, gallery>>

\* The loader rejects the load of url: useLoader throws, no effect runs.
ModelFailed(url) ==
    /\ loader.status[url] = "pending"
    /\ loader' = [loader EXCEPT !.status[url] = "failed"]
    /\ last' = [op |-> "modelFailed", arg |-> None]
    /\ UNCHANGED <<ViewerPage, detail, gallery>>

InitUrl == InitWith(PrefsProducts, {})

NextUrl ==
    \/ \E url \in ModelUrls : RenderModel(url)
    \/ \E url \in SanitizedUrls : ModelLoaded(url)
    \/ \E url \in SanitizedUrls : ModelFailed(url)

SpecUrl == InitUrl /\ [][NextUrl]_vars

\* The viewer on assets with clips: loads and the animation controls.
InitAnim == InitWith(AnimProducts, AnimUrls)

NextAnim ==
    \/ \E p \in AnimProducts : Mount(p)
    \/ \E p \in AnimProducts : SetProduct(p)
    \/ \E u \in AnimUrls : LoadComplete(u)
    \/ \E a \in {"idle", "walk", "run", "jump"} : handleAnimationSelect(a)
    \/ handleNext
    \/ handlePrevious
    \/ handlePlayToggle
    \/ StopAnimation
    \/ RestartAnimation

SpecAnim == InitAnim /\ [][NextAnim]_vars

\* Viewers mounted on assets of various complexity, all but the first in
\* the loader's cache: each load analyzes the asset.
InitAnalyze == InitWith(AnalyzeProducts, AnalyzeUrls)

NextAnalyze ==
    \/ \E p \in AnalyzeProducts : Mount(p)
    \/ \E u \in AnalyzeUrls : LoadComplete(u)

SpecAnalyze == InitAnalyze /\ [][NextAnalyze]_vars

(***************************************************************************)
(* What the canvas shows: the box of the shown asset under the scene's     *)
(* transform inside the group ProductViewer positions and scales.          *)
(***************************************************************************)
RenderedBox ==
    Box3SetFromObject(Asset(shown).geom, Compose(GroupWorld(Viewer), scene[shown]))

\* The box normalizeModel measured at the last load, from modelInfo.
MeasuredCenter == modelInfo[1].center
MeasuredMaxDim == MaxDim(modelInfo[1].originalSize)

Loaded == last.op = "load"

(***************************************************************************)
(* C1.  For a loaded model whose measured box has a largest extent         *)
(* maxDim > 0, after handleScaleChange has applied the slider's multiplier *)
(* the group's scale is (targetSize / maxDim) * multiplier, strictly       *)
(* positive, and the group's translation is -center * scale on each axis.  *)
(***************************************************************************)
C1_ScaleAndTranslation ==
    (last.op = "scale" /\ modelInfo # <<>> /\ QPos(MeasuredMaxDim)) =>
        /\ modelScale = QMul(QDiv(QInt(TargetSize), MeasuredMaxDim), vcModelScale)
        /\ QPos(modelScale)
        /\ modelPosition = VScale(VScale(MeasuredCenter, QInt(-1)), modelScale)

(***************************************************************************)
(* C2, as claimed.  After the load of a model whose box has all-zero extents, wherever *)
(* the point lies, AnimatedModel's fit step leaves the scene with the      *)
(* scale prop as its scale and translation (0,0,0), and normalizeModel     *)
(* yields scale 1 (the multiplier) and translation (0,0,0).                *)
(***************************************************************************)
ZeroExtents(geom) == GetSize(geom) = VZero

FitCenter(u, groupW) ==
    GetCenter(Box3SetFromObject(Asset(u).geom, Compose(groupW, scene[u])))

\* The fit step of this load completion moves the scene by minus the centre
\* it measures: under the identity in a viewer just mounted, which has
\* rendered no frame with a normalization, else under the group's transform.
FitStepCenters ==
    LET u       == shown'
        mounted == FitCenter(u, Identity)
        kept    == FitCenter(u, GroupWorld(Viewer))
    IN  scene'[u].pos \in {VScale(mounted, QInt(-1)), VScale(kept, QInt(-1))}

C3_Idempotent ==
    [][(last'.op = "load" /\ last.op = "load" /\ shown' = shown)
          => (normalizedScale' = normalizedScale /\ modelPosition' = modelPosition)]_vars

(***************************************************************************)
(* C4.  After every successful load completion of a model with a largest   *)
(* extent > 0, the rendered model has its box centred at the world origin  *)
(* and its largest dimension equal to targetSize.                          *)
(***************************************************************************)
C4_CenteredAndFitted ==
    (Loaded /\ ~ZeroExtents(Asset(shown).geom)) =>
        /\ GetCenter(RenderedBox) = VZero
        /\ MaxDim(GetSize(RenderedBox)) = QInt(TargetSize)

(***************************************************************************)
(* C5.  After any load completion, if the product's auto-play flag is      *)
(* false or the loaded clip list is empty, no clip is selected and         *)
(* playback is stopped.                                                    *)
(***************************************************************************)
C5_NoAutoPlayNoClip ==
    (Loaded /\ (~product.autoPlay \/ Asset(shown).clips = <<>>)) =>
        (currentAnimation = None /\ ~playAnimations)

(***************************************************************************)
(* C6.  After a load completion with auto-play on and a declared default   *)
(* that is non-empty and names a clip of the asset, the clip selected and  *)
(* the clip playing are that declared default, wherever it stands in the   *)
(* clip list.                                                              *)
(***************************************************************************)
DeclaredPresent ==
    /\ product.defaultAnimation # ""
    /\ InSeq(product.defaultAnimation, Asset(shown).clips)

C6_DeclaredDefaultPlays ==
    (Loaded /\ product.autoPlay /\ DeclaredPresent) =>
        /\ currentAnimation = product.defaultAnimation
        /\ playAnimations
        /\ playing = product.defaultAnimation

\* The declared default is the last of three clips and plays.
C6_Witness ==
    /\ Loaded /\ product.autoPlay /\ DeclaredPresent
    /\ Asset(shown).clips[3] = product.defaultAnimation
    /\ playing = product.defaultAnimation

(***************************************************************************)
(* C7, as claimed.  After a load completion with auto-play on, a non-empty *)
(* clip list and a declared default that is empty or absent, the clip      *)
(* selected and playing is the clip at index 0 of gltf.animations.         *)
(***************************************************************************)
FallsBack == Loaded /\ product.autoPlay /\ Asset(shown).clips # <<>> /\ ~DeclaredPresent

RECURSIVE FirstNamed(_)
FirstNamed(clips) ==
    IF clips = <<>> THEN None
    ELSE IF Head(clips) # "" THEN Head(clips) ELSE FirstNamed(Tail(clips))

Requested == last.op \in {"select", "next", "previous", "restart"}
AssetShown == shown # None /\ ~Suspended

C8_RequestedClipPlays ==
    (Requested /\ AssetShown /\ InSeq(last.arg, Asset(shown).clips)) =>
        /\ currentAnimation = last.arg
        /\ selectedAnimation = last.arg
        /\ playAnimations
        /\ playing = last.arg

\* A clip is picked under a product without auto-play.
C8_Witness ==
    /\ last.op = "select" /\ AssetShown
    /\ ~product.autoPlay
    /\ InSeq(last.arg, Asset(shown).clips)
    /\ playing = last.arg
    /\ last.arg # "idle"

Fallback(clips) ==
    IF clips = <<>> THEN None
    ELSE IF InSeq("idle", clips) THEN "idle"
    ELSE IF InSeq("animation", clips) THEN "animation"
    ELSE IF InSeq("action", clips) THEN "action"
    ELSE IF InSeq("default", clips) THEN "default"
    ELSE IF clips[1] # "" THEN clips[1]
    ELSE None

NoDuplicates(seq) == \A i, j \in 1..Len(seq) : seq[i] = seq[j] => i = j

RECURSIVE NextTimes(_, _, _)
NextTimes(animations, selected, k) ==
    IF k = 0 THEN selected
    ELSE NextTimes(animations, NextAnimation(animations, selected), k - 1)

CycleCase ==
    /\ availableAnimations # <<>>
    /\ NoDuplicates(availableAnimations)
    /\ InSeq(selectedAnimation, availableAnimations)

C10_Cycle ==
    /\ [][(handleNext /\ CycleCase) =>
            LET i == IndexOf(availableAnimations, selectedAnimation)
                n == Len(availableAnimations)
            IN  /\ currentAnimation' = availableAnimations[((i + 1) % n) + 1]
                /\ selectedAnimation' = currentAnimation']_vars
    /\ [][(handlePrevious /\ CycleCase) =>
            LET i == IndexOf(availableAnimations, selectedAnimation)
                n == Len(availableAnimations)
            IN  /\ currentAnimation' = availableAnimations[((i + n - 1) % n) + 1]
                /\ selectedAnimation' = currentAnimation']_vars
    /\ [](CycleCase =>
            /\ NextTimes(availableAnimations, selectedAnimation,
                         Len(availableAnimations)) = selectedAnimation
            /\ PrevAnimation(availableAnimations,
                             NextAnimation(availableAnimations, selectedAnimation))
                  = selectedAnimation)

\* next has wrapped from the last of three clips to the first.
C10_Witness ==
    /\ last.op = "next"
    /\ Len(availableAnimations) = 3
    /\ currentAnimation = availableAnimations[1]
    /\ selectedAnimation = currentAnimation

(***************************************************************************)
(* C11.  When the selection is not in the clip list (none, or a name the   *)
(* list does not have) next selects the first clip and previous selects    *)
(* the last clip; on an empty clip list next and previous return without   *)
(* passing anything on.                                                    *)
(***************************************************************************)
Cycled == last.op \in {"next", "previous"}

C11_OutsideSelection ==
    /\ (Cycled /\ ~InSeq(last.from, availableAnimations)) =>
           /\ last.op = "next" => last.arg = availableAnimations[1]
           /\ last.op = "previous" =>
                  last.arg = availableAnimations[Len(availableAnimations)]
           /\ currentAnimation = last.arg
           /\ selectedAnimation = last.arg
    /\ availableAnimations = <<>> =>
           /\ NextRequest(availableAnimations, selectedAnimation) = <<>>
           /\ PrevRequest(availableAnimations, selectedAnimation) = <<>>

\* previous, from a selected name the list does not have, reached the last clip.
C11_Witness ==
    /\ last.op = "previous"
    /\ last.from # None
    /\ ~InSeq(last.from, availableAnimations)
    /\ currentAnimation = availableAnimations[Len(availableAnimations)]

(***************************************************************************)
(* The scene graph the analysis of the last load read, and its result.     *)
(***************************************************************************)
Analyzed == Loaded /\ modelInfo # <<>>
AnalyzedGraph == Asset(shown).graph
ModelInfo == modelInfo[1]

(***************************************************************************)
(* C12.  analyzeModelComplexity returns 'high' exactly when triangleCount  *)
(* > 50000 or meshCount > 50, otherwise 'medium' exactly when              *)
(* triangleCount > 10000 or meshCount > 20, otherwise 'low'; 50000, 50,    *)
(* 10000 and 20 themselves fall in the lower tier.                         *)
(***************************************************************************)
C12_Tiers ==
    Analyzed =>
        LET t == ModelInfo.triangleCount
            m == ModelInfo.meshCount
        IN  /\ ModelInfo.complexity = "high" <=> (t > 50000 \/ m > 50)
            /\ ModelInfo.complexity = "medium" <=>
                   (~(t > 50000 \/ m > 50) /\ (t > 10000 \/ m > 20))
            /\ ModelInfo.complexity = "low" <=>
                   (~(t > 50000 \/ m > 50) /\ ~(t > 10000 \/ m > 20))
            /\ ModelInfo.complexity \in {"high", "medium", "low"}

\* Exactly 50000 triangles in one mesh: 'medium'.
C12_Witness ==
    /\ Analyzed
    /\ ModelInfo.triangleCount = 50000
    /\ ModelInfo.meshCount = 1
    /\ ModelInfo.complexity = "medium"

(***************************************************************************)
(* C13.  triangleCount is the sum, over every mesh of the scene graph, of  *)
(* floor(c / 3), c being the mesh's index count if it has an index buffer  *)
(* and its position-vertex count otherwise, whatever the nesting of the    *)
(* meshes in the graph.                                                    *)
(***************************************************************************)
VertexCount(node) ==
    IF node.index >= 0 THEN node.index
    ELSE IF node.position >= 0 THEN node.position ELSE 0

RECURSIVE SumOfFloors(_)
RECURSIVE SumOfFloorsOf(_)
SumOfFloorsOf(children) ==
    IF children = <<>> THEN 0
    ELSE SumOfFloors(Head(children)) + SumOfFloorsOf(Tail(children))
SumOfFloors(node) ==
    (IF IsMesh(node) THEN VertexCount(node) \div 3 ELSE 0) + SumOfFloorsOf(node.children)

C13_TriangleSum ==
    Analyzed =>
        /\ ModelInfo.triangleCount = SumOfFloors(AnalyzedGraph)
        /\ shown \in {"flat.glb", "nested.glb"} => ModelInfo.triangleCount = 4

(***************************************************************************)
(* C14.  meshCount is the number of geometry-bearing nodes of the scene    *)
(* graph at any depth, the nodes AnimatedModel treats as meshes (isMesh),  *)
(* skinned meshes included.                                                *)
(***************************************************************************)
RECURSIVE MeshNodes(_)
RECURSIVE MeshNodesOf(_)
MeshNodesOf(children) ==
    IF children = <<>> THEN 0
    ELSE MeshNodes(Head(children)) + MeshNodesOf(Tail(children))
MeshNodes(node) == (IF IsMesh(node) THEN 1 ELSE 0) + MeshNodesOf(node.children)

C14_MeshCount == Analyzed => ModelInfo.meshCount = MeshNodes(AnalyzedGraph)

(***************************************************************************)
(* C15.  The result of a load that a change of URL has overtaken is never  *)
(* applied: handleModelLoad runs only for the asset of the most recent     *)
(* URL, and once the load of the most recent URL has completed, modelInfo, *)
(* availableAnimations, the selection and the scale and position describe  *)
(* that asset.                                                             *)
(***************************************************************************)
\* The load of the most recent URL has completed.
RecentLoaded == ~Suspended /\ shown # None /\ error = None

\* A load overtaken by a change of URL completes: nothing is applied.
StaleDiscarded ==
    last'.op = "stale" =>
        /\ ViewerUnchanged
        /\ UNCHANGED <<scene, shown, playing, selectedAnimation>>

\* handleModelLoad has run for the asset of the URL the viewer has.
LoadIsRecent == Loaded => (last.arg = product.url /\ shown = product.url)

DescribesRecent ==
    RecentLoaded =>
        LET asset == Asset(product.url)
        IN  /\ shown = product.url
            /\ modelInfo # <<>>
            /\ ModelInfo.meshCount = countMeshes(asset.graph)
            /\ ModelInfo.animationCount = Len(asset.clips)
            /\ availableAnimations = AnimNames(asset.clips)
            /\ normalizedScale = ModelInfo.normalizedScale
            /\ modelPosition = ModelInfo.centeredPosition

SelectionOfRecent ==
    RecentLoaded =>
        (currentAnimation = None \/ InSeq(currentAnimation, Asset(product.url).clips))

C15_StaleNeverApplied ==
    /\ [][StaleDiscarded]_vars
    /\ [](LoadIsRecent /\ DescribesRecent /\ SelectionOfRecent)

(***************************************************************************)
(* C16.  For each successful load completion the load effect (validation,  *)
(* analysis, normalization, selection of the default animation) runs       *)
(* once: the state updates of handleModelLoad start no load and change no  *)
(* dependency of the effect, so nothing is left to run after the step.     *)
(***************************************************************************)
NoLoadStarted ==
    \A u \in DOMAIN loadStatus : loadStatus'[u] = "pending" => loadStatus[u] = "pending"

C16_RunsOnce ==
    /\ [](Loaded => last.deps = LoadEffectDeps(shown, product))
    /\ [][last'.op = "load" => (nLoads' = nLoads + 1 /\ NoLoadStarted)]_vars

\* A later load completion has changed the scale and the position.
C16_Witness ==
    /\ Loaded
    /\ nLoads > 1
    /\ modelScale # QOne
    /\ modelPosition # VZero
    /\ last.deps = LoadEffectDeps(shown, product)
(***************************************************************************)
(* C17: each viewer parameter is last-write-wins.                          *)
(***************************************************************************)
\* The applied values other than the one named.
OtherSettings(field) == [f \in (DOMAIN settings) \ {field} |-> settings[f]]

\* A change of one control applies the value of that change to its parameter
\* and leaves the other applied values as they were.
Applies(op, field, value) ==
    last'.op = op =>
        /\ settings'[field] = value
        /\ OtherSettings(field)' = OtherSettings(field)
        /\ UNCHANGED <<modelScale, normalizedScale>>

\* C17: on a loaded model, a change of the rotation toggle, the rotation
\* speed, the scale, the environment or the quality sets the applied value of
\* that parameter from the change alone, whatever the changes before it, and
\* touches no other parameter; the model scale becomes the normalized scale
\* times the multiplier of the change.
C17_LastWriteWins ==
    [][/\ Applies("rotationToggle", "autoRotateEnabled", last'.arg)
       /\ Applies("rotationSpeed", "rotationSpeed", QMul(last'.arg, Q(1, 100)))
       /\ Applies("environment", "environment", last'.arg)
       /\ Applies("quality", "quality", last'.arg)
       /\ last'.op = "scale" =>
              /\ modelScale' = QMul(normalizedScale, last'.arg)
              /\ UNCHANGED <<settings, normalizedScale>>]_vars

\* Every parameter has been changed, the rotation toggle twice, the quality
\* last, on a loaded model whose scale was doubled.
C17_Witness ==
    /\ RecentLoaded
    /\ last.op = "quality"
    /\ settings = [wireframeMode |-> FALSE, autoRotateEnabled |-> TRUE,
                   rotationSpeed |-> Q(3, 100), environment |-> "forest",
                   quality |-> "high"]
    /\ vcModelScale = QInt(2)
    /\ modelScale = QMul(normalizedScale, QInt(2))
    /\ modelScale # normalizedScale

(***************************************************************************)
(* C18: a load that fails.                                                 *)
(***************************************************************************)
\* C18: when the load of the viewer's asset has failed, the viewer is in
\* its error state: error is set and isLoading is false, which is when the
\* error overlay with the retry button is displayed.
C18_FailureDisplayed == Crashed => (error # None /\ ~isLoading)

(***************************************************************************)
(* C19: a product without a model.                                         *)
(***************************************************************************)
\* The branch ProductViewer renders: 'No 3D Model Available' in place of the
\* canvas when there is no model URL.
NoModelAvailable == getModelUrl(product) = None

\* C19: while the product has no asset reference the viewer is in the 'no
\* model available' state, and no step that leaves it with such a product
\* starts a load, runs the load effect (normalizeModel, the selection of an
\* animation) or shows a gltf.
C19_NoModelNoLoad ==
    [][product'.url = None =>
          /\ NoModelAvailable'
          /\ \A u \in DOMAIN loadStatus :
                 loadStatus'[u] = "pending" => loadStatus[u] = "pending"
          /\ nLoads' = nLoads
          /\ last'.op \notin {"load", "loadError"}
          /\ shown' = None
          /\ scene' = scene]_vars

\* The product of a viewer that has loaded a model is replaced by a product
\* without one.
C19_Witness ==
    /\ product.url = None
    /\ last.op = "product"
    /\ modelInfo # <<>>
    /\ nLoads > 0

(***************************************************************************)
(* C20: a loaded model the validation rejects.                             *)
(***************************************************************************)
\* The URLs of the models without a scene or with a scene without children.
InvalidUrls ==
    {u \in DOMAIN scene :
        Asset(u).graph = NoScene \/ Len(Asset(u).graph.children) = 0}

InFlight ==
    IF getModelUrl(product) = None THEN FALSE
    ELSE loadStatus[getModelUrl(product)] = "pending"

\* C21: while the load of the viewer's asset is in flight the viewer is in
\* the loading state, for the load started at mount and for a load started
\* by a change of the asset.
C21_LoadingWhileInFlight == InFlight => isLoading

(***************************************************************************)
(* C22: the viewer preferences round-trip through local storage.           *)
(***************************************************************************)
\* The handlers of ViewerControls that change a setting.
ControlOps ==
    {"scale", "wireframe", "rotationToggle", "rotationSpeed", "environment",
     "quality", "reset"}

\* The settings ViewerControls shows.
CurrentPreferences == Preferences(vcSettings, vcModelScale)

\* C22: after every step the stored preferences, read back, are the current
\* settings; and a step that is no change of a setting, the mount of a new
\* viewer among them, leaves the settings those that were stored before it
\* and leaves the stored item as it was.
C22_RoundTrip ==
    [][/\ stored' # <<>>
       /\ storageGet(stored', EmptyObject) = CurrentPreferences'
       /\ last'.op \notin ControlOps =>
              /\ CurrentPreferences' = storageGet(stored, EmptyObject)
              /\ stored' = stored]_vars

\* A viewer has just been mounted with stored preferences that differ from
\* the initial state in every setting.
C22_Witness ==
    /\ last.op = "load"
    /\ CurrentPreferences =
           [wireframeMode |-> TRUE, autoRotate |-> FALSE,
            rotationSpeed |-> QInt(3), modelScale |-> QInt(2),
            environment |-> "forest", quality |-> "high"]
    /\ stored = storageSet(CurrentPreferences)
    /\ settings = InitialSettings

(***************************************************************************)
(* C26: the settings shown and the settings applied.                       *)
(***************************************************************************)
\* C26: the settings ViewerControls shows are the ones ProductViewer
\* applies: the auto-rotate flag, the rotation speed (0.01 times the one
\* shown), the environment, the quality, the wireframe mode and, for a
\* loaded model, the scale (normalizedScale times the one shown).
C26_ShownIsApplied ==
    /\ settings.autoRotateEnabled = vcSettings.autoRotate
    /\ settings.rotationSpeed = QMul(vcSettings.rotationSpeed, Q(1, 100))
    /\ settings.environment = vcSettings.environment
    /\ settings.quality = vcSettings.quality
    /\ settings.wireframeMode = vcSettings.wireframeMode
    /\ RecentLoaded => modelScale = QMul(normalizedScale, vcModelScale)

(***************************************************************************)
(* C23: the group's translation follows the applied scale.                 *)
(***************************************************************************)
\* C23: in every state after a successful load, whatever changes of the
\* scale slider and resets came after it, the translation of the group is
\* minus the measured centre times the scale the group has.
C23_TranslationFollowsScale ==
    (RecentLoaded /\ modelInfo # <<>>) =>
        modelPosition = VScale(VScale(MeasuredCenter, QInt(-1)), modelScale)

(***************************************************************************)
(* C24: AnimatedModel's center-and-fit step, taken alone.                  *)
(***************************************************************************)
\* The box of the shown asset in the frame of the group its scene hangs in.
BoxInGroup == Box3SetFromObject(Asset(shown).geom, scene[shown])

\* The load effect has run once, in a viewer just mounted: its fit step
\* found the scene with the identity transform in a group with the identity
\* transform.
FitTakenAlone == Loaded /\ nLoads = 1

\* C24: after the fit step taken alone on a model with a largest extent
\* above 0, the box of the scene is centred at the origin of the group and
\* its largest dimension is 3.5 times the scale prop.
C24_FitStepCentres ==
    (FitTakenAlone /\ QPos(MaxDim(GetSize(Asset(shown).geom)))) =>
        /\ GetCenter(BoxInGroup) = VZero
        /\ MaxDim(GetSize(BoxInGroup)) =
               QMul(Q(FitTargetNum, FitTargetDen), QInt(ScaleProp))

\* The half of C24 on the size alone.
C24_FitStepSize ==
    (FitTakenAlone /\ QPos(MaxDim(GetSize(Asset(shown).geom)))) =>
        MaxDim(GetSize(BoxInGroup)) =
            QMul(Q(FitTargetNum, FitTargetDen), QInt(ScaleProp))

(***************************************************************************)
(* C27: the clip playing is the clip selected.                             *)
(***************************************************************************)
\* C27: a clip that plays is the one currentAnimation names and
\* AnimationControls shows as selected; no clip plays while
\* currentAnimation is none or names no clip of the shown asset.  (The
\* effect stops every action before it starts one: playing is one clip.)
C27_PlayingIsSelected ==
    playing # None =>
        /\ playing = currentAnimation
        /\ playing = selectedAnimation
        /\ InSeq(currentAnimation, Asset(shown).clips)

\* C27 without what AnimationControls shows.
C27_PlayingIsCurrent == playing # None => playing = currentAnimation

(***************************************************************************)
(* C28: the selection is a clip of the list, playback needs a selection.   *)
(***************************************************************************)
\* C28: currentAnimation is none or one of availableAnimations, and
\* playAnimations is true only with a currentAnimation.
C28_SelectionInList ==
    /\ currentAnimation = None \/ InSeq(currentAnimation, availableAnimations)
    /\ playAnimations => currentAnimation # None

C28_PlayNeedsSelection == playAnimations => currentAnimation # None

(***************************************************************************)
(* C29: ProductDetail shows the product requested last.                    *)
(***************************************************************************)
\* C29: once every request has been answered, the page shows the outcome of
\* the request made last: its product without an error, or its error, with
\* loading false; and while the request made last is in flight, loading is
\* true.
C29_NewestWins ==
    /\ detail.newest = "pending" => detail.loading
    /\ detail.requests = {} =>
           /\ ~detail.loading
           /\ detail.newest = "ok" =>
                  (detail.product = detail.id /\ detail.error = None)
           /\ detail.newest = "failed" => detail.error # None

(***************************************************************************)
(* C25: the gallery search is debounced.                                   *)
(***************************************************************************)
\* Typing has stopped: no timer is pending after a keystroke.
TypingStopped == gallery.keys > 0 /\ gallery.timers = <<>>

\* C25: once typing has stopped, setSearchTerm has been invoked exactly once
\* for the sequence of keystrokes typed last, and searchTerm is the value
\* typed last.
C25_DebouncedOnce ==
    TypingStopped => (gallery.calls = 1 /\ gallery.searchTerm = gallery.typed)

\* The half of C25 on the value.
C25_LastValue == TypingStopped => gallery.searchTerm = gallery.typed

(***************************************************************************)
(* C30: the URL is validated before the loader is invoked.                 *)
(***************************************************************************)
Rejected(url) ==
    sanitizeModelUrl(url) = Null \/ ~validateModelUrl(sanitizeModelUrl(url)).isValid

\* C30: no load is started for a modelUrl that sanitizeModelUrl rejects or
\* that validateModelUrl reports invalid.
C30_ValidatedBeforeLoad == \A load \in loader.started : ~Rejected(load[1])

\* C30, its last part: onLoad is never called for such a URL.
C30_NoOnLoadForRejected ==
    \A url \in loader.onLoad : validateModelUrl(url).isValid

====
